---- MODULE Spec2Model ----
(***************************************************************************)
(* Model of tinkoff_invest_bot: the rebalancing engine of MMVBStrategy     *)
(* (collect_information, get_portfolio, search_shares_to_buy) and the      *)
(* operating loop MMVBStrategy.run with the ClientService calls it makes,  *)
(* and MMVBDataFetcher (fetch_html, fetch_index_data, validate_data) with  *)
(* its html cache and its url attribute, which MMVBStrategy shares.        *)
(*                                                                         *)
(* Numbers.  Prices, cash and weights are modelled as exact integers       *)
(* (currency units, percent).  A DataFrame cell is a sequence: <<>> is a   *)
(* missing value (NaN, the result of an unmatched left join), <<n>> is the *)
(* number n, and <<n, d>> is the quotient n / d of a column the code       *)
(* obtains by division.  None (a failed get_money) is <<>> as well.        *)
(* The arithmetic is that of exact numbers: binary floating point rounding *)
(* and the mixing of Decimal and float operands are outside the model.     *)
(***************************************************************************)
EXTENDS Integers, Sequences, FiniteSets, TLC

VARIABLES
    bench,              \* ticker -> weight: the table collect_mmvb_weights returns
    shares,             \* ticker -> lot: the catalog get_shares_info returns
    postions,           \* figi -> balance: the table get_positions_info returns
    prices,             \* figi -> price: the table get_last_prices_info returns
    money,              \* self.money
    portfolio,          \* self.portfolio: the rows of the last computed table
    adjusted_tickers,   \* self.adjusted_tickers: the buy plan, figi -> lots_to_buy
    raised,             \* the exception the last step raised, "none" if none
    pc,                 \* where the process is
    clock,              \* the current UTC time, in hours since day 0, 00:00
    now,                \* the local `now` of run()
    schedule,           \* what moex_today_trading_schedule returned last
    share_to_buy,       \* self.share_to_buy
    todo,               \* the items of share_to_buy the for loop has yet to visit
    attempts,           \* the order submissions attempted in this pass
    orders,             \* the orders the broker received in this pass
    pass,               \* this iteration's computation pass: "none", "failed", "planned"
    fetched,            \* what get_money returned in this iteration: {} or {value}
    first,              \* the outcome of the first of two calls of the engine
    html,               \* MMVBDataFetcher.html
    url,                \* MMVBDataFetcher.url
    last_call,          \* the last call of fetch_index_data: what it did
    validated           \* what the last call of validate_data returned or raised

vars == <<bench, shares, postions, prices, money, portfolio, adjusted_tickers,
          raised, pc, clock, now, schedule, share_to_buy, todo, attempts,
          orders, pass, fetched, first, html, url, last_call, validated>>

fetcherVars == <<html, url, last_call, validated>>
world == <<bench, shares, postions, prices>>
engineVars == <<money, portfolio, adjusted_tickers, raised, first>>
loopVars == <<clock, now, schedule, share_to_buy, todo, attempts, orders, pass, fetched>>

(***************************************************************************)
(* Bounds of the model.                                                    *)
(***************************************************************************)
MaxPrice == 3
MaxLot == 2
MaxBalance == 1
MaxCash == 6
MaxDay == 3

Tickers == {"AAA", "BBB"}
Weights == {30, 50}

(***************************************************************************)
(* Cells.                                                                  *)
(***************************************************************************)
NaN == <<>>
None == <<>>
Num(n) == <<n>>
IsNaN(x) == x = NaN
Val(x) == x[1]

\* figi of an instrument of the catalog: instrument ids are unique
FigiOf(t) == IF t = "AAA" THEN "F_AAA" ELSE "F_BBB"
Figis == {FigiOf(t) : t \in Tickers}

\* Series * Series, element by element: NaN propagates
Mul(a, b) == IF IsNaN(a) \/ IsNaN(b) THEN NaN ELSE Num(Val(a) * Val(b))

RECURSIVE SumOver(_, _)
SumOver(S, f) ==
    IF S = {} THEN 0
    ELSE LET x == CHOOSE y \in S : TRUE
         IN  f[x] + SumOver(S \ {x}, f)

\* Series.sum(): skipna, 0 for an empty Series
SeriesSum(col) ==
    LET known == {k \in DOMAIN col : ~IsNaN(col[k])}
    IN  SumOver(known, [k \in known |-> Val(col[k])])

Ok(v) == [exc |-> "none", value |-> v]
Raise(e) == [exc |-> e, value |-> NaN]

(***************************************************************************)
(* The rebalancing engine.                                                 *)
(***************************************************************************)
EmptyTable == [t \in {} |-> NaN]

\* a DataFrame built from an empty list: no rows and no columns
TableEmpty(tbl) == \A k \in DOMAIN tbl : IsNaN(tbl[k])

\* self.shares["figi"] needs the column; get_last_prices_info needs a non-empty list
collect_portfolio_information(po, s, pr) ==
    IF TableEmpty(s) THEN Raise("KeyError")
    ELSE Ok([postions |-> po, shares |-> s, prices |-> pr])

\* one merged row: the benchmark row of ticker t left-joined with the three tables
MergedRow(t, weight, figi, s, po, pr) ==
    [ticker  |-> t,
     weight  |-> weight,
     figi    |-> figi,
     lot     |-> s[t],
     balance |-> IF IsNaN(figi) THEN Num(0)
                 ELSE IF IsNaN(po[figi[1]]) THEN Num(0) ELSE po[figi[1]],
     price   |-> IF IsNaN(figi) THEN NaN ELSE pr[figi[1]]]

\* MergeTables with a fault: the joins start from the catalog, one row per
\* instrument of the catalog
MergeTables_perCatalog(b, info) ==
    IF info.exc # "none" THEN info
    ELSE IF TableEmpty(info.value.postions) \/ TableEmpty(info.value.prices)
    THEN Raise("KeyError")
    ELSE Ok([t \in {u \in Tickers : ~IsNaN(info.value.shares[u])} |->
             MergedRow(t, b[t], <<FigiOf(t)>>,
                       info.value.shares, info.value.postions, info.value.prices)])

\* the three left joins, then balance.fillna(0): one row per benchmark row;
\* a merge on "figi" with a table that has no columns raises KeyError
MergeTables(b, info) ==
    IF info.exc # "none" THEN info
    ELSE IF TableEmpty(info.value.postions) \/ TableEmpty(info.value.prices)
    THEN Raise("KeyError")
    ELSE Ok([t \in {u \in Tickers : ~IsNaN(b[u])} |->
             MergedRow(t, b[t],
                       IF IsNaN(info.value.shares[t]) THEN NaN ELSE <<FigiOf(t)>>,
                       info.value.shares, info.value.postions, info.value.prices)])

collect_information(b, s, po, pr) ==
    MergeTables(b, collect_portfolio_information(po, s, pr))

\* PortfolioBase with a fault: the value of the positions is left out of the base
PortfolioBase_cashOnly(data, m) == Val(m)

\* portfolio_rubles_volume.sum() + self.money, evaluated for the table
PortfolioBase(data, m) ==
    SeriesSum([t \in DOMAIN data |-> Mul(data[t].price, data[t].balance)]) + Val(m)

\* the row r with the four computed columns of get_portfolio
PortfolioRow(r, vol, base) ==
    [ticker  |-> r.ticker,
     weight  |-> r.weight,
     figi    |-> r.figi,
     lot     |-> r.lot,
     balance |-> r.balance,
     price   |-> r.price,
     lot_price |-> Mul(r.price, r.lot),
     portfolio_rubles_volume |-> vol,
     portfolio_weight_volume |->
         IF IsNaN(vol) \/ base = 0 THEN NaN ELSE <<100 * Val(vol), base>>,
     ideal_portfolio |->
         IF IsNaN(r.weight) THEN NaN ELSE <<Val(r.weight) * base, 100>>]

\* trap: the division raises on a zero divisor (Decimal) instead of giving NaN (float)
PortfolioColumns(data, base, trap) ==
    IF base = 0 /\ DOMAIN data # {} /\ trap
    THEN Raise("ZeroDivisionError")
    ELSE Ok([t \in DOMAIN data |->
             PortfolioRow(data[t], Mul(data[t].price, data[t].balance), base)])

\* lines 155-167 on the table collect_information returned; None + number raises
PortfolioOf(info, m, trap) ==
    IF info.exc # "none" THEN info
    ELSE IF m = None THEN Raise("TypeError")
    ELSE PortfolioColumns(info.value, PortfolioBase(info.value, m), trap)

get_portfolio(b, s, po, pr, m, trap) ==
    PortfolioOf(collect_information(b, s, po, pr), m, trap)

\* floor(ideal_portfolio - portfolio_rubles_volume) of a row without NaN
ToBuyRubles(r) ==
    (r.ideal_portfolio[1] - r.ideal_portfolio[2] * Val(r.portfolio_rubles_volume))
        \div r.ideal_portfolio[2]

\* ToBuy with a fault: the last comparison is not strict
ToBuy_notStrict(rubles, lot_price, m) ==
    /\ rubles > 0
    /\ ~IsNaN(lot_price) /\ Val(lot_price) <= Val(m)
    /\ ~IsNaN(lot_price) /\ rubles >= Val(lot_price)

\* the three conditions of the to_buy column; a comparison with NaN is False
ToBuy(rubles, lot_price, m) ==
    /\ rubles > 0
    /\ ~IsNaN(lot_price) /\ Val(lot_price) <= Val(m)
    /\ ~IsNaN(lot_price) /\ rubles > Val(lot_price)

\* to_buy_rubles // lot_price
LotsToBuy(rubles, lot_price) == rubles \div Val(lot_price)

\* the row r with its to_buy_rubles and to_buy columns
ToBuyRow(r, rubles, m) ==
    [ticker  |-> r.ticker,
     weight  |-> r.weight,
     figi    |-> r.figi,
     lot     |-> r.lot,
     balance |-> r.balance,
     price   |-> r.price,
     lot_price |-> r.lot_price,
     portfolio_rubles_volume |-> r.portfolio_rubles_volume,
     portfolio_weight_volume |-> r.portfolio_weight_volume,
     ideal_portfolio |-> r.ideal_portfolio,
     to_buy_rubles |-> rubles,
     to_buy |-> ToBuy(rubles, r.lot_price, m)]

\* self.portfolio with its to_buy_rubles and to_buy columns
WithToBuy(tbl, m) == [t \in DOMAIN tbl |-> ToBuyRow(tbl[t], ToBuyRubles(tbl[t]), m)]

\* lines 202-212: the rows to buy, their lots, the dict keyed by figi;
\* the floor division by a zero lot price has no integer result
PlanOfRows(tbl, buy) ==
    IF \E t \in buy : Val(tbl[t].lot_price) = 0
    THEN [exc |-> "ZeroDivisionError", stage |-> "lots_to_buy",
          portfolio |-> tbl, plan |-> EmptyTable]
    ELSE [exc |-> "none", stage |-> "returned",
          portfolio |-> tbl,
          plan |-> [f \in {tbl[t].figi[1] : t \in buy} |->
                    LotsToBuy(tbl[CHOOSE u \in buy : tbl[u].figi[1] = f].to_buy_rubles,
                              tbl[CHOOSE u \in buy : tbl[u].figi[1] = f].lot_price)]]

PlanOfTable(tbl) == PlanOfRows(tbl, {t \in DOMAIN tbl : tbl[t].to_buy})

\* lines 192-214 on the table get_portfolio returned; math.floor(NaN) raises
PlanOf(p, m) ==
    IF p.exc # "none"
    THEN [exc |-> p.exc, stage |-> "get_portfolio",
          portfolio |-> EmptyTable, plan |-> EmptyTable]
    ELSE IF \E t \in DOMAIN p.value :
                \/ IsNaN(p.value[t].ideal_portfolio)
                \/ IsNaN(p.value[t].portfolio_rubles_volume)
    THEN [exc |-> "ValueError", stage |-> "floor",
          portfolio |-> p.value, plan |-> EmptyTable]
    ELSE PlanOfTable(WithToBuy(p.value, m))

\* stage: how far the call got; portfolio and plan: the fields it assigned
search_shares_to_buy(b, s, po, pr, m, trap) ==
    PlanOf(get_portfolio(b, s, po, pr, m, trap), m)

(***************************************************************************)
(* What the collaborators can return.                                      *)
(***************************************************************************)
Opt(S) == {NaN} \cup {Num(n) : n \in S}

BenchTables ==
    {b \in [Tickers -> Opt(Weights)] :
        SeriesSum(b) <= 100}
ShareTables == [Tickers -> Opt(1..MaxLot)]
PositionTables == [Figis -> Opt(1..MaxBalance)]
\* last prices are requested, and returned, for instruments of the catalog only
PriceTables(s) ==
    {pr \in [Figis -> Opt(0..MaxPrice)] :
        \A t \in Tickers : IsNaN(s[t]) => IsNaN(pr[FigiOf(t)])}
\* get_money: None on a failed fetch, else the account's total_amount_currencies
MoneyValues == {None} \cup {Num(c) : c \in (-1)..MaxCash}

(***************************************************************************)
(* MMVBDataFetcher.  A page body is named by the URL it was served from    *)
(* and by what it holds: "empty" is the body "", "no_table" a page without *)
(* a table, "table" a page whose first table parse_table_data can read.    *)
(***************************************************************************)
Urls == {"index_url", "tickers_url"}
Outcomes == {"error", "empty", "no_table", "table"}

\* self.html is None
NoHtml == [from |-> "none", text |-> "none"]
Body(u, outcome) == [from |-> u, text |-> outcome]

\* `if html:` - None and "" are falsy
Truthy(h) == h.text \notin {"none", "empty"}

\* fetch_html: requests.get only when self.html is None; a RequestException
\* leaves self.html as it was.  The value is both self.html and what is returned.
fetch_html(h, u, outcome) ==
    IF h = NoHtml
    THEN IF outcome = "error" THEN NoHtml ELSE Body(u, outcome)
    ELSE h

\* fetch_index_data after its call of fetch_html returned got: the fields it
\* leaves and the table it returns ("None" when it returns None)
IndexDataOf(h, u, got) ==
    [html |-> IF Truthy(got) THEN NoHtml ELSE got,
     url |-> u,
     call |-> [url |-> u, requested |-> (h = NoHtml), handled |-> got,
               result |-> IF Truthy(got) /\ got.text = "table" THEN "table"
                          ELSE "None"]]

fetch_index_data(h, u, outcome) == IndexDataOf(h, u, fetch_html(h, u, outcome))

NoCall == [url |-> "none", requested |-> FALSE, handled |-> NoHtml, result |-> "None"]

\* the display names of the index page and the weight texts of its rows
Names == {"Alpha", "Beta"}
WeightTexts == {<<30, "%">>, <<50, "%">>, <<"%">>}

\* the tables with one row per name of a subset of Names
PartialTables(cells) == UNION {[S -> cells] : S \in SUBSET Names}

\* the index table, after the iloc slice of lines 161-165: name -> weight text
IndexTables == PartialTables(WeightTexts)
\* the tickers table: name -> ticker
TickerTables == PartialTables({<<t>> : t \in Tickers})

\* x[:-1]
StripLast(x) == SubSeq(x, 1, Len(x) - 1)

\* the row of name n after the left merge on the display name and the selection
\* of lines 174-177: an unmatched name keeps its row, with a NaN ticker
ValidatedRow(n, text, tickers_data) ==
    [ticker |-> IF n \in DOMAIN tickers_data THEN tickers_data[n] ELSE NaN,
     weight |-> StripLast(text)]

NotValidated == [exc |-> "none", kind |-> "not called", rows |-> EmptyTable]
ReturnedNone == [exc |-> "none", kind |-> "None", rows |-> EmptyTable]

\* lines 167-182 with the tickers table the fetch returned; tickers_page is
\* "None" when fetch_index_data returned None: None[[...]] raises TypeError;
\* astype("float") raises ValueError on a text that is not a number
ValidatedOf(data, tickers_page, tickers_data) ==
    IF tickers_page = "None"
    THEN [exc |-> "TypeError", kind |-> "raised", rows |-> EmptyTable]
    ELSE IF \E n \in DOMAIN data : Len(StripLast(data[n])) = 0
    THEN [exc |-> "ValueError", kind |-> "raised", rows |-> EmptyTable]
    ELSE [exc |-> "none", kind |-> "table",
          rows |-> [n \in DOMAIN data |-> ValidatedRow(n, data[n], tickers_data)]]

\* collect_mmvb_weights of an object whose self.url is u, when the index page
\* holds the table that validates to b: fetch_index_data(tickers_url) inside
\* validate_data has assigned self.url, so a later call reads the tickers page
\* as the index page, and that page has no weight column for line 174
collect_mmvb_weights(u, b) ==
    IF u = "index_url" THEN Ok(b) ELSE Raise("KeyError")

\* one call of search_shares_to_buy by an object whose self.url is u
EngineCall(u, b, s, po, pr, m, trap) ==
    IF u # "index_url"
    THEN [exc |-> collect_mmvb_weights(u, b).exc, stage |-> "get_portfolio",
          portfolio |-> EmptyTable, plan |-> EmptyTable]
    ELSE search_shares_to_buy(collect_mmvb_weights(u, b).value, s, po, pr, m, trap)

(***************************************************************************)
(* The operating loop, MMVBStrategy.run.  pc names the line of             *)
(* strategies.py the process is about to execute.                          *)
(***************************************************************************)
WakeHour == 10
HoursPerDay == 24
OpenHours == {7, 11}
CloseHours == {16}

Day(c) == c \div HoursPerDay

NoSchedule ==
    [known |-> FALSE, is_trading_day |-> FALSE, start_time |-> 0, end_time |-> 0, at |-> 0]

\* what moex_today_trading_schedule can return at time c: today's entry of the
\* calendar, or (False, utcnow, utcnow) when the calendar has no entry for today
Schedules(c) ==
    {[known |-> TRUE, is_trading_day |-> td,
      start_time |-> Day(c) * HoursPerDay + o,
      end_time |-> Day(c) * HoursPerDay + e, at |-> c] :
        td \in BOOLEAN, o \in OpenHours, e \in CloseHours}
    \cup {[known |-> TRUE, is_trading_day |-> FALSE,
           start_time |-> c, end_time |-> c, at |-> c]}

\* is_trading_day and start_time < now < end_time
InTradingWindow(sched, t) ==
    sched.is_trading_day /\ sched.start_time < t /\ t < sched.end_time

\* 10:00 UTC of the day after the day of c
NextDayWake(c) == (Day(c) + 1) * HoursPerDay + WakeHour

\* __sleep_to: sleeps only when next_time is in the future
sleep_to(c, next_time) == IF next_time - c > 0 THEN next_time ELSE c

\* __sleep_to_next_day
sleep_to_next_day(c) == sleep_to(c, NextDayWake(c))

\* the methods MMVBStrategy has, its own and those of its two base classes
Methods ==
    {"collect_mmvb_weights", "collect_portfolio_information", "collect_information",
     "get_portfolio", "search_shares_to_buy", "run",
     "get_shares_info", "get_positions_info", "get_last_prices_info", "get_money",
     "byu_figi", "moex_today_trading_schedule",
     "fetch_html", "fetch_index_data", "parse_table_data", "validate_data"}

\* byu_figi(figi, lot): the order post_order is called with
byu_figi(figi, lot) == [figi |-> figi, quantity |-> lot]

\* Caught with a fault: the handler is as narrow as that of byu_figi
Caught_onlyRequestError(e) == e = "RequestError"

\* `except Exception`: every exception a pass can raise is an Exception
Caught(e) == TRUE

\* RefreshedMoney with a fault: the pass keeps the cash it had before
RefreshedMoney_stale(old, got) == old

\* line 254, self.money = self.get_money(): the field after the refresh
RefreshedMoney(old, got) == got

\* the snapshots the collaborators return in the loop's passes
LoopWorlds ==
    {w \in [bench : {[t \in Tickers |-> Num(50)]},
            shares : {[t \in Tickers |-> IF t = "AAA" THEN Num(MaxLot) ELSE Num(1)]},
            postions : {[f \in Figis |-> NaN],
                        [f \in Figis |-> IF f = "F_AAA" THEN Num(1) ELSE NaN]},
            prices : {[f \in Figis |-> Num(1)],
                      [f \in Figis |-> IF f = "F_AAA" THEN Num(1) ELSE NaN]}] : TRUE}

NoFirst == [exc |-> "none", plan |-> EmptyTable, trap |-> FALSE]

\* the fetcher of a strategy object just constructed: strategies.py line 41
FetcherOfStrategy ==
    /\ html = NoHtml
    /\ url = "index_url"
    /\ last_call = NoCall
    /\ validated = NotValidated

Init ==
    /\ bench = [t \in Tickers |-> NaN]
    /\ shares = [t \in Tickers |-> NaN]
    /\ postions = [f \in Figis |-> NaN]
    /\ prices = [f \in Figis |-> NaN]
    /\ money \in MoneyValues
    /\ portfolio = EmptyTable
    /\ adjusted_tickers = EmptyTable
    /\ raised = "none"
    /\ pc = "l247"
    /\ clock \in 0..(HoursPerDay - 1)
    /\ now = 0
    /\ schedule = NoSchedule
    /\ share_to_buy = EmptyTable
    /\ todo = {}
    /\ attempts = {}
    /\ orders = {}
    /\ pass = "none"
    /\ fetched = {}
    /\ first = NoFirst
    /\ FetcherOfStrategy

\* line 247: now is taken once, before the loop
RunStart ==
    /\ pc = "l247"
    /\ now' = clock
    /\ pc' = "l250"
    /\ UNCHANGED <<world, engineVars, clock, schedule, share_to_buy, todo, attempts,
                   orders, pass, fetched, fetcherVars>>

\* lines 250-252: the schedule lookup and the trading-window test
ScheduleLookup ==
    /\ pc = "l250"
    /\ pass' = "none"
    /\ fetched' = {}
    /\ \/ \E sched \in Schedules(clock) :
            /\ schedule' = sched
            /\ raised' = "none"
            /\ pc' = IF InTradingWindow(sched, now) THEN "l253" ELSE "l267"
       \/ \* Client() is opened outside the try of __trading_schedules
          /\ schedule' = [NoSchedule EXCEPT !.at = clock]
          /\ raised' = "Exception"
          /\ pc' = "l265"
    /\ UNCHANGED <<world, money, portfolio, adjusted_tickers, clock, now,
                   share_to_buy, todo, attempts, orders, first, fetcherVars>>

\* lines 253-257: refresh the cash, compute the plan
Trade ==
    /\ pc = "l253"
    /\ attempts' = {}
    /\ orders' = {}
    /\ \/ \E got \in MoneyValues, w \in LoopWorlds, trap \in BOOLEAN :
            \E r \in {EngineCall(url, w.bench, w.shares, w.postions, w.prices,
                                 RefreshedMoney(money, got), trap)} :
                /\ fetched' = {got}
                /\ url' = "tickers_url"
                /\ money' = RefreshedMoney(money, got)
                /\ bench' = w.bench
                /\ postions' = w.postions
                /\ shares' = w.shares
                /\ prices' = w.prices
                /\ raised' = r.exc
                /\ portfolio' = IF r.stage = "get_portfolio" THEN portfolio
                                ELSE r.portfolio
                /\ adjusted_tickers' = IF r.stage = "returned" THEN r.plan
                                       ELSE adjusted_tickers
                /\ share_to_buy' = IF r.stage = "returned" THEN r.plan ELSE share_to_buy
                /\ pass' = IF r.stage = "returned" THEN "planned" ELSE "failed"
                /\ todo' = IF r.stage = "returned" THEN DOMAIN r.plan ELSE {}
                /\ pc' = IF r.stage # "returned" THEN "l265"
                         ELSE IF DOMAIN r.plan = {} THEN "l259" ELSE "l262"
       \/ \* Client() is opened outside the try of get_money
          /\ raised' = "Exception"
          /\ pass' = "failed"
          /\ todo' = {}
          /\ pc' = "l265"
          /\ UNCHANGED <<world, money, portfolio, adjusted_tickers, share_to_buy,
                         fetched, url>>
    /\ UNCHANGED <<clock, now, schedule, first, html, last_call, validated>>

\* line 259: 'No shares to buy'
NoShares ==
    /\ pc = "l259"
    /\ clock' = sleep_to_next_day(clock)
    /\ pc' = "l267"
    /\ UNCHANGED <<world, engineVars, now, schedule, share_to_buy, todo, attempts,
                   orders, pass, fetched, fetcherVars>>

\* lines 262-264: one turn of the for loop over share_to_buy.items()
Buy ==
    /\ pc = "l262"
    /\ \E figi \in todo :
         IF "buy_figi" \notin Methods
         THEN \* self.buy_figi: no such attribute
              /\ raised' = "AttributeError"
              /\ pc' = "l265"
              /\ UNCHANGED <<todo, attempts, orders>>
         ELSE /\ attempts' = attempts \cup {byu_figi(figi, share_to_buy[figi])}
              /\ todo' = todo \ {figi}
              /\ \/ /\ orders' = orders \cup {byu_figi(figi, share_to_buy[figi])}
                    /\ raised' = "none"
                    /\ pc' = IF todo' = {} THEN "l267" ELSE "l262"
                 \/ \* RequestError: printed by byu_figi
                    /\ orders' = orders
                    /\ raised' = "none"
                    /\ pc' = IF todo' = {} THEN "l267" ELSE "l262"
                 \/ \* any other exception of post_order or Client()
                    /\ orders' = orders
                    /\ raised' = "Exception"
                    /\ pc' = "l265"
    /\ UNCHANGED <<world, money, portfolio, adjusted_tickers, clock, now,
                   schedule, share_to_buy, pass, fetched, first, fetcherVars>>

\* lines 265-266: except Exception as e: print(e)
Except ==
    /\ pc = "l265"
    /\ pc' = IF Caught(raised) THEN "l267" ELSE "terminated"
    /\ UNCHANGED <<world, engineVars, loopVars, fetcherVars>>

\* lines 267-268: 'Sleep for next day', then the next iteration
Sleep ==
    /\ pc = "l267"
    /\ Day(clock) < MaxDay
    /\ clock' = sleep_to_next_day(clock)
    /\ pc' = "l250"
    /\ UNCHANGED <<world, engineVars, now, schedule, share_to_buy, todo, attempts,
                   orders, pass, fetched, fetcherVars>>

Next == RunStart \/ ScheduleLookup \/ Trade \/ NoShares \/ Buy \/ Except \/ Sleep

Spec == Init /\ [][Next]_vars

(***************************************************************************)
(* SpecEngine: search_shares_to_buy applied once to every bounded input.   *)
(***************************************************************************)
LoopIdle ==
    /\ clock = 0
    /\ now = 0
    /\ schedule = NoSchedule
    /\ share_to_buy = EmptyTable
    /\ todo = {}
    /\ attempts = {}
    /\ orders = {}
    /\ pass = "none"
    /\ fetched = {}

InitEngine ==
    /\ bench \in BenchTables
    /\ shares \in ShareTables
    /\ postions \in PositionTables
    /\ prices \in PriceTables(shares)
    /\ money \in MoneyValues
    /\ portfolio = EmptyTable
    /\ adjusted_tickers = EmptyTable
    /\ raised = "none"
    /\ pc = "engine"
    /\ first = NoFirst
    /\ FetcherOfStrategy
    /\ LoopIdle

\* one call of search_shares_to_buy on the frozen inputs
SearchSharesToBuy ==
    /\ pc = "engine"
    /\ \E trap \in BOOLEAN :
         \E r \in {EngineCall(url, bench, shares, postions, prices, money, trap)} :
             /\ raised' = r.exc
             /\ portfolio' = IF r.stage = "get_portfolio" THEN portfolio ELSE r.portfolio
             /\ adjusted_tickers' = IF r.stage = "returned" THEN r.plan
                                    ELSE adjusted_tickers
             /\ first' = [exc |-> r.exc, plan |-> r.plan, trap |-> trap]
    /\ url' = "tickers_url"
    /\ pc' = "engine_done"
    /\ UNCHANGED <<world, money, loopVars, html, last_call, validated>>

\* a second call on the same object, the collaborators returning what they
\* returned to the first; the arithmetic of the build is that of the first call
SearchAgain ==
    /\ pc = "engine_done"
    /\ \E r \in {EngineCall(url, bench, shares, postions, prices, money, first.trap)} :
         /\ raised' = r.exc
         /\ portfolio' = IF r.stage = "get_portfolio" THEN portfolio ELSE r.portfolio
         /\ adjusted_tickers' = IF r.stage = "returned" THEN r.plan
                                ELSE adjusted_tickers
    /\ url' = "tickers_url"
    /\ pc' = "engine_twice"
    /\ UNCHANGED <<world, money, first, loopVars, html, last_call, validated>>

NextEngine == SearchSharesToBuy \/ SearchAgain

SpecEngine == InitEngine /\ [][NextEngine]_vars

(***************************************************************************)
(* SpecFetcher: any sequence of calls of fetch_index_data and              *)
(* validate_data on one MMVBDataFetcher, the pages answering as they may.  *)
(***************************************************************************)
InitFetcher ==
    /\ bench = [t \in Tickers |-> NaN]
    /\ shares = [t \in Tickers |-> NaN]
    /\ postions = [f \in Figis |-> NaN]
    /\ prices = [f \in Figis |-> NaN]
    /\ money = None
    /\ portfolio = EmptyTable
    /\ adjusted_tickers = EmptyTable
    /\ raised = "none"
    /\ first = NoFirst
    /\ pc = "fetcher"
    /\ LoopIdle
    /\ html = NoHtml
    /\ url = "none"
    /\ last_call = NoCall
    /\ validated = NotValidated

\* fetch_index_data(u), the page of u answering with outcome
FetchIndexData ==
    /\ pc = "fetcher"
    /\ \E u \in Urls, outcome \in Outcomes :
         \E r \in {fetch_index_data(html, u, outcome)} :
             /\ html' = r.html
             /\ url' = r.url
             /\ last_call' = r.call
    /\ UNCHANGED <<world, engineVars, loopVars, pc, validated>>

\* validate_data(data, tickers_url): data is None, an empty table or a table
\* with rows; the tickers page answers with outcome and holds tickers_data
ValidateData ==
    /\ pc = "fetcher"
    /\ \/ \* lines 153-160: not a DataFrame, or an empty one
          /\ validated' = ReturnedNone
          /\ UNCHANGED <<html, url, last_call>>
       \/ \E data \in IndexTables, outcome \in Outcomes, tickers_data \in TickerTables :
            /\ \E r \in {fetch_index_data(html, "tickers_url", outcome)} :
                 /\ html' = r.html
                 /\ url' = r.url
                 /\ last_call' = r.call
                 /\ validated' = ValidatedOf(data, r.call.result, tickers_data)
    /\ UNCHANGED <<world, engineVars, loopVars, pc>>

NextFetcher == FetchIndexData \/ ValidateData

SpecFetcher == InitFetcher /\ [][NextFetcher]_vars

(***************************************************************************)
(* The vocabulary of the specification, stated on the inputs of a pass.    *)
(***************************************************************************)
Rows == {t \in Tickers : ~IsNaN(bench[t])}
RowKnown(t) == ~IsNaN(shares[t]) /\ ~IsNaN(prices[FigiOf(t)])
KnownRows == {t \in Rows : RowKnown(t)}
RowBalance(t) ==
    IF IsNaN(shares[t]) \/ IsNaN(postions[FigiOf(t)]) THEN 0
    ELSE Val(postions[FigiOf(t)])
PositionValue(t) == Val(prices[FigiOf(t)]) * RowBalance(t)
LotPrice(t) == Val(prices[FigiOf(t)]) * Val(shares[t])
AvailableCash == Val(money)
TotalInvested == SumOver(KnownRows, [t \in KnownRows |-> PositionValue(t)])
SpecPortfolioBase == TotalInvested + AvailableCash
\* floor(target_weight_percent / 100 * portfolio_base - position_value)
Deficit(t) == (Val(bench[t]) * SpecPortfolioBase - 100 * PositionValue(t)) \div 100
BuyEligible(t) ==
    /\ RowKnown(t)
    /\ Deficit(t) > 0
    /\ LotPrice(t) <= AvailableCash
    /\ Deficit(t) > LotPrice(t)
InPlan(t) == ~IsNaN(shares[t]) /\ FigiOf(t) \in DOMAIN adjusted_tickers
EngineDone == pc = "engine_done"
EngineReturned == EngineDone /\ raised = "none"
TablesNonEmpty == ~TableEmpty(shares) /\ ~TableEmpty(postions) /\ ~TableEmpty(prices)

(***************************************************************************)
(* The claims.                                                             *)
(***************************************************************************)

C2_LotsAreFloorOfDeficit ==
    EngineReturned =>
        \A t \in Rows :
            InPlan(t) =>
                /\ adjusted_tickers[FigiOf(t)] = Deficit(t) \div LotPrice(t)
                /\ adjusted_tickers[FigiOf(t)] >= 1

\* a plan with two entries over a base of holdings and cash: one entry of two
\* lots or more, one whose deficit is not a multiple of its lot price
C2_Witness ==
    /\ EngineReturned
    /\ \A t \in Tickers : InPlan(t)
    /\ TotalInvested > 0
    /\ \E t \in Rows : adjusted_tickers[FigiOf(t)] >= 2
    /\ \E t \in Rows : Deficit(t) % LotPrice(t) # 0

\* C3: the plan never over-spends: with a non-negative available_cash, the sum of
\* lots_to_buy * lot_price over the plan's entries is at most available_cash.
C3_PlanWithinCash ==
    (EngineReturned /\ AvailableCash >= 0) =>
        LET bought == {t \in Rows : InPlan(t)}
        IN  SumOver(bought, [t \in bought |-> adjusted_tickers[FigiOf(t)] * LotPrice(t)])
                <= AvailableCash

\* C4: a row whose price, weight or lot size is unknown is left out of the plan
\* and never makes the engine raise.  Stated for passes whose tables are not
\* empty, whose cash is positive and whose known prices are positive.
C4_UnknownRowsNeverRaise ==
    (/\ EngineDone
     /\ TablesNonEmpty
     /\ money # None /\ AvailableCash > 0
     /\ \A t \in KnownRows : Val(prices[FigiOf(t)]) > 0
     /\ \E t \in Rows : ~RowKnown(t))
    => (raised = "none" /\ \A t \in Rows : ~RowKnown(t) => ~InPlan(t))

\* C5: with available_cash = 0 and every balance 0 the engine does not fail, the
\* position weight and the ideal value of every row are 0 and the plan is empty.
\* Stated for passes whose rows are all known and whose tables are not empty.
C5_ZeroBaseGivesZeroWeights ==
    (/\ EngineDone
     /\ TablesNonEmpty
     /\ money = Num(0)
     /\ Rows # {} /\ KnownRows = Rows
     /\ \A t \in Rows : RowBalance(t) = 0)
    => /\ raised = "none"
       /\ DOMAIN portfolio = Rows
       /\ \A t \in DOMAIN portfolio :
            /\ ~IsNaN(portfolio[t].portfolio_weight_volume)
            /\ portfolio[t].portfolio_weight_volume[1] = 0
            /\ ~IsNaN(portfolio[t].ideal_portfolio)
            /\ portfolio[t].ideal_portfolio[1] = 0
       /\ DOMAIN adjusted_tickers = {}

\* C6: a cash balance that is None or negative makes the pass fail (with
\* InvalidCashBalance) and produce no plan.  Stated as: a pass over a benchmark
\* table with rows fails.
C6_InvalidCashRejected ==
    (EngineDone /\ Rows # {} /\ (money = None \/ AvailableCash < 0)) => raised # "none"

\* C7: for each entry (figi, lots_to_buy) of the plan of a pass, the driver
\* submits a buy order for that figi with quantity lots_to_buy * lot_size.
C7_OrderPerEntryInShares ==
    (pc = "l267" /\ pass = "planned") =>
        \A t \in Tickers :
            FigiOf(t) \in DOMAIN share_to_buy =>
                [figi |-> FigiOf(t),
                 quantity |-> share_to_buy[FigiOf(t)] * Val(shares[t])] \in attempts

\* C8: in a pass with a non-empty plan a submission is attempted for every entry
\* of the plan, whatever became of the earlier submissions.
C8_EveryEntryAttempted ==
    (pc = "l267" /\ pass = "planned") =>
        {a.figi : a \in attempts} = DOMAIN share_to_buy

\* C9: on every wake-up that falls on a trading day, with the current time inside
\* the day's trading window, run() performs a computation pass; on the later
\* wake-ups of the process as on the first.
C9_PassOnEveryTradingWakeUp ==
    (pc = "l267" /\ schedule.known /\ InTradingWindow(schedule, schedule.at))
        => pass # "none"

\* C10: an exception raised during a pass of run() (schedule lookup, cash fetch,
\* plan computation, order submission) is not fatal: the step that raises goes to
\* the handler, the handler to the sleep until the next wake-up, the sleep to the
\* next iteration; run() never terminates.
C10_PassFailureNotFatal ==
    [][/\ (raised' # "none" /\ pc' # pc /\ pc \in {"l250", "l253", "l262"})
            => pc' = "l265"
       /\ pc = "l265" => pc' = "l267"
       /\ (pc = "l267" /\ pc' # pc) => (pc' = "l250" /\ clock' = NextDayWake(clock))
       /\ pc' # "terminated"]_vars

\* an iteration that raised was followed by a sleep and a new iteration
C10_Witness ==
    /\ pc = "l250"
    /\ raised # "none"
    /\ Day(clock) >= 1

\* C11: every computation pass of run() uses the cash fetched in that same pass:
\* the field the engine reads holds what this iteration's get_money returned, and
\* the plan of the pass is the plan computed from that value.
C11_PassUsesCashOfThisPass ==
    (pass # "none" /\ fetched # {}) =>
        /\ fetched = {money}
        /\ pass = "planned" =>
              share_to_buy =
                  search_shares_to_buy(bench, shares, postions, prices,
                                       CHOOSE m \in fetched : TRUE, FALSE).plan

\* a pass that fetched its cash and planned a purchase with it
C11_Witness ==
    /\ pc = "l262"
    /\ pass = "planned"
    /\ fetched # {}
    /\ DOMAIN share_to_buy # {}

\* C12: a collaborator fetch that fails degrades to an empty result and the pass
\* still completes, with an empty or partial plan; a fully-empty input does not
\* make it raise.  Stated as: a pass with positive cash in which a broker table
\* came back empty does not raise.
C12_EmptyFetchStillCompletes ==
    (/\ EngineDone
     /\ money # None /\ AvailableCash > 0
     /\ (TableEmpty(shares) \/ TableEmpty(postions) \/ TableEmpty(prices)))
    => raised = "none"

\* C13: a second call of search_shares_to_buy on the same object, with the
\* collaborators returning what they returned to the first call, returns the plan
\* the first call returned.
C13_SecondCallSamePlan ==
    (pc = "engine_twice" /\ first.exc = "none" /\ DOMAIN first.plan # {}) =>
        (raised = "none" /\ adjusted_tickers = first.plan)

\* C14: the table validate_data returns has no row without a ticker: the rows
\* whose display name has no match in the tickers table are dropped.
C14_NoRowWithoutTicker ==
    validated.kind = "table" =>
        \A n \in DOMAIN validated.rows : ~IsNaN(validated.rows[n].ticker)

\* the instruments of the catalog, and the value of those that are held
Catalog == {t \in Tickers : ~IsNaN(shares[t])}
HeldCatalog == {t \in Catalog : ~IsNaN(prices[FigiOf(t)])}
CatalogInvested == SumOver(HeldCatalog, [t \in HeldCatalog |-> PositionValue(t)])
PortfolioBuilt == EngineDone /\ raised \in {"none", "ValueError"}

C16_EveryCallParsesItsOwnPage ==
    last_call.url # "none" =>
        /\ last_call.requested
        /\ last_call.handled.from \in {"none", last_call.url}

\* C17: every iteration of run() sleeps until the next day's wake-up exactly
\* once, whatever its branch: the next iteration starts at 10:00 UTC of the day
\* after the day the iteration started on.
C17_OneSleepPerIteration ==
    [][(pc = "l267" /\ pc' = "l250") => clock' = NextDayWake(schedule.at)]_vars

====
